---- MODULE Spec2Model ----
(***************************************************************************)
(* Model of the two Hugging Face glue scripts of ops/hyperbolic:          *)
(*   hf_restore.py    restore artifacts once at launch                     *)
(*   hf_sync_loop.py  upload artifacts once or on a timer                  *)
(* One run of one of the two scripts is one behaviour; `prog` says which   *)
(* script was started.  The hosted-repository SDK (snapshot_download,      *)
(* create_repo, upload_folder) and time.sleep are external calls: each is  *)
(* one step whose outcome (return, or the class of the exception raised)   *)
(* is chosen nondeterministically.  A local path is a sequence of path     *)
(* segments below --local-dir; a glob pattern is a sequence of pattern     *)
(* segments.                                                               *)
(***************************************************************************)
EXTENDS Integers, Sequences, FiniteSets, TLC

VARIABLES
    prog,            \* "restore" | "sync": which script this run is
    args,            \* the parsed command line (argparse Namespace)
    dirKind,         \* what --local-dir names: "absent" | "dir" | "file"
    fs,              \* entries below --local-dir: records [path, kind]
    pc,              \* position of the run in main / sync_once
    exc,             \* class of the exception in flight, or "none"
    exitCode,        \* process exit status once pc = "done" (-1 while running)
    allow_patterns,  \* local of main
    ignore_patterns, \* local of main (sync only)
    apiCreated,      \* HfApi(token=...) has been constructed
    calls,           \* how often each external capability has been invoked
    passed,          \* <<allow, ignore>> handed to the external capability by the
                     \*   first and by the latest call that takes patterns (<<>>: no call yet)
    iter,            \* the current sync_once call: what create_repo did, whether
                     \*   upload_folder was invoked, what any_matches saw and returned
    attempts,        \* number of sync_once calls started
    sleeps,          \* number of time.sleep calls started
    lastSleep,       \* argument of the latest time.sleep call
    raised,          \* class of the exception raised in the current attempt, or "none"
    checked,         \* restore: whether the skip check was reached, and the tree it saw
    handled,         \* number of exceptions the loop's own handlers have swallowed
    dirKind0,        \* dirKind when the process started
    fsChanges        \* number of entries the training job has written so far

vars == <<prog, args, dirKind, fs, pc, exc, exitCode, allow_patterns, ignore_patterns,
          apiCreated, calls, passed, iter, attempts, sleeps, lastSleep, raised,
          checked, handled, dirKind0, fsChanges>>

----------------------------------------------------------------------------
(* Bounds of the model *)

MaxAllow == 2        \* at most this many --allow-pattern flags
MaxIgnore == 1       \* at most this many --ignore-pattern flags
MaxAttempts == 2     \* the loop is followed for this many sync_once calls
MaxFsChanges == 1    \* the training job writes at most this many entries during a run

(* Program constants *)

MIN_SLEEP == 30
DEFAULT_INTERVAL == 1200

----------------------------------------------------------------------------
(* Pattern lists *)

DEFAULT_ALLOW_PATTERNS ==
    << <<"base_checkpoints", "**">>,
       <<"chatsft_checkpoints", "**">>,
       <<"chatrl_checkpoints", "**">>,
       <<"tokenizer", "**">>,
       <<"report", "**">>,
       <<"report.md">>,
       <<"identity_conversations.jsonl">> >>

DEFAULT_IGNORE_PATTERNS ==
    << <<"**", "*.tmp">>,
       <<"**", "*.lock">> >>

RESTORE_DEFAULT_ALLOW_PATTERNS ==
    << <<"base_checkpoints", "**">>,
       <<"chatsft_checkpoints", "**">>,
       <<"chatrl_checkpoints", "**">>,
       <<"tokenizer", "**">>,
       <<"report", "**">>,
       <<"report.md">>,
       <<"identity_conversations.jsonl">> >>

\* Patterns a user may give on the command line in this model.
UserAllowPatterns == { <<"*.txt">>, <<"base_checkpoints", "**">> }
UserIgnorePatterns == { <<"**", "*.bak">>, <<"notes.txt">> }

\* Values of --interval-seconds (type=int): negative, zero, just below and at
\* the floor, and the default.
Intervals == { -5, 0, 29, 30, DEFAULT_INTERVAL }

SeqsUpTo(S, n) == UNION { [1..k -> S] : k \in 0..n }

----------------------------------------------------------------------------
(* The local tree *)

Dir(p)  == [path |-> p, kind |-> "dir"]
File(p) == [path |-> p, kind |-> "file"]

Entries ==
    { Dir(<<"base_checkpoints">>),
      Dir(<<"base_checkpoints", "d12">>),
      File(<<"base_checkpoints", "d12", "model_000.pt">>),
      File(<<"notes.txt">>) }

Parent(p) == SubSeq(p, 1, Len(p) - 1)

\* A tree is a set of entries in which every entry's parent directory exists.
IsTree(t) ==
    \A e \in t : Len(e.path) > 1 => Dir(Parent(e.path)) \in t

Trees == { t \in SUBSET Entries : IsTree(t) }

----------------------------------------------------------------------------
(* glob.glob(os.path.join(local_dir, pattern), recursive=True) *)

\* fnmatch of one path segment against one pattern segment without "**".
SegMatch(p, name) ==
    CASE p = "*"          -> TRUE
      [] p = "*.txt"      -> name \in {"notes.txt"}
      [] p = "*.bak"      -> FALSE
      [] p = "*.tmp"      -> FALSE
      [] p = "*.lock"     -> FALSE
      [] p = "model_*.pt" -> name \in {"model_000.pt"}
      [] OTHER            -> p = name

RECURSIVE GlobFrom(_, _, _, _)
\* Does pattern pat from segment i on match entry e from path segment j on?
\* "**" stands for zero or more segments; a trailing "**" that matches zero
\* segments yields the directory itself ("dir/"), so e must be a directory.
GlobFrom(pat, i, e, j) ==
    IF i > Len(pat)
    THEN j > Len(e.path)
    ELSE IF pat[i] = "**"
         THEN \/ /\ i = Len(pat)
                 /\ j > Len(e.path)
                 /\ e.kind = "dir"
              \/ /\ i < Len(pat)
                 /\ GlobFrom(pat, i + 1, e, j)
              \/ /\ j <= Len(e.path)
                 /\ GlobFrom(pat, i, e, j + 1)
         ELSE /\ j <= Len(e.path)
              /\ SegMatch(pat[i], e.path[j])
              /\ GlobFrom(pat, i + 1, e, j + 1)

\* The entries glob.glob returns for one pattern.
Glob(tree, pat) == { e \in tree : GlobFrom(pat, 1, e, 1) }

any_matches(tree, patterns) ==
    \E k \in 1..Len(patterns) : Glob(tree, patterns[k]) # {}

has_local_checkpoints(tree) ==
    Glob(tree, <<"base_checkpoints", "*", "model_*.pt">>) # {}

----------------------------------------------------------------------------
(* Exceptions *)

\* Classes an external call can raise in this model, with their base classes.
Mro(c) ==
    CASE c = "HfHubHTTPError"    -> {"HfHubHTTPError", "Exception", "BaseException"}
      [] c = "ValueError"        -> {"ValueError", "Exception", "BaseException"}
      [] c = "FileExistsError"   -> {"FileExistsError", "OSError", "Exception", "BaseException"}
      [] c = "KeyboardInterrupt" -> {"KeyboardInterrupt", "BaseException"}
      [] OTHER                   -> {}

IsInstance(c, cls) == cls \in Mro(c)

\* Outcomes of a call into the SDK, and of time.sleep.
CallOutcomes  == {"ok", "HfHubHTTPError", "ValueError", "KeyboardInterrupt"}
SleepOutcomes == {"ok", "KeyboardInterrupt"}

\* Status of a process that dies of an uncaught exception.
UncaughtStatus(c) == IF c = "KeyboardInterrupt" THEN 130 ELSE 1

Max(a, b) == IF a >= b THEN a ELSE b

----------------------------------------------------------------------------
(* Initial states: the command line has been parsed *)

NoIter == [create |-> "none", upload |-> FALSE, matched |-> "none", seen |-> {}]
NoCalls == [create_repo |-> 0, upload_folder |-> 0, snapshot_download |-> 0]
NoPassed == [first |-> <<>>, last |-> <<>>]
NoCheck == [reached |-> FALSE, seen |-> {}]

ArgsOf(p) ==
    IF p = "restore"
    THEN { [once |-> FALSE, skip_if_local |-> s, allow_pattern |-> a,
            ignore_pattern |-> <<>>, interval_seconds |-> DEFAULT_INTERVAL] :
              s \in BOOLEAN, a \in SeqsUpTo(UserAllowPatterns, MaxAllow) }
    ELSE { [once |-> o, skip_if_local |-> FALSE, allow_pattern |-> a,
            ignore_pattern |-> g, interval_seconds |-> n] :
              o \in BOOLEAN, a \in SeqsUpTo(UserAllowPatterns, MaxAllow),
              g \in SeqsUpTo(UserIgnorePatterns, MaxIgnore), n \in Intervals }

Init ==
    /\ prog \in {"restore", "sync"}
    /\ args \in ArgsOf(prog)
    /\ dirKind \in {"absent", "dir", "file"}
    /\ dirKind0 = dirKind
    /\ fs \in IF dirKind = "dir" THEN Trees ELSE {{}}
    /\ pc = IF prog = "restore" THEN "r_makedirs" ELSE "s_isdir"
    /\ exc = "none"
    /\ exitCode = -1
    /\ allow_patterns = <<>>
    /\ ignore_patterns = <<>>
    /\ apiCreated = FALSE
    /\ calls = NoCalls
    /\ passed = NoPassed
    /\ iter = NoIter
    /\ attempts = 0
    /\ sleeps = 0
    /\ lastSleep = 0
    /\ raised = "none"
    /\ checked = NoCheck
    /\ handled = 0
    /\ fsChanges = 0

----------------------------------------------------------------------------
(* Helpers of the steps *)

\* Mutant: the user's patterns are appended to the defaults.
EffectivePatterns_Merged(user, default) == default \o user

\* `user if user else list(DEFAULT)`: an empty list is falsy.
EffectivePatterns(user, default) == IF Len(user) > 0 THEN user ELSE default

\* Mutant: the interval is used as given, without the floor.
SleepSeconds_NoFloor(n) == n

\* time.sleep(max(30, args.interval_seconds))
SleepSeconds(n) == Max(MIN_SLEEP, n)

\* Mutant: the --once call sits inside the loop's try/except too.
UnwindTarget_AlwaysInner == "s_unwind_inner"

\* Where an exception raised inside sync_once is looked at first: the loop's
\* own try/except in loop mode, only the KeyboardInterrupt handler in --once mode.
UnwindTarget == IF args.once THEN "s_unwind_outer" ELSE "s_unwind_inner"

Exit(code) ==
    /\ pc' = "done"
    /\ exitCode' = code

Record(pair) ==
    passed' = [first |-> IF passed.first = <<>> THEN pair ELSE passed.first,
               last  |-> pair]

----------------------------------------------------------------------------
(* hf_restore.main *)

\* os.makedirs(args.local_dir, exist_ok=True)
RestoreMakedirs ==
    /\ pc = "r_makedirs"
    /\ IF dirKind = "file"
       THEN /\ raised' = "FileExistsError"
            /\ Exit(UncaughtStatus("FileExistsError"))
            /\ UNCHANGED dirKind
       ELSE /\ dirKind' = "dir"
            /\ pc' = "r_skip_check"
            /\ UNCHANGED <<raised, exitCode>>
    /\ UNCHANGED <<prog, args, fs, exc, allow_patterns, ignore_patterns, apiCreated,
                   calls, passed, iter, attempts, sleeps, lastSleep, checked,
                   handled, dirKind0, fsChanges>>

\* Mutant: the restore is skipped whenever local checkpoints exist, flag or no flag.
RestoreSkipCheck_IgnoresFlag ==
    /\ pc = "r_skip_check"
    /\ checked' = [reached |-> TRUE, seen |-> fs]
    /\ IF has_local_checkpoints(fs)
       THEN /\ Exit(0)
            /\ UNCHANGED allow_patterns
       ELSE /\ allow_patterns' =
                   IF Len(args.allow_pattern) > 0 THEN args.allow_pattern
                   ELSE RESTORE_DEFAULT_ALLOW_PATTERNS
            /\ pc' = "r_download"
            /\ UNCHANGED exitCode
    /\ UNCHANGED <<prog, args, dirKind, fs, exc, ignore_patterns, apiCreated, calls,
                   passed, iter, attempts, sleeps, lastSleep, raised, handled, dirKind0,
                   fsChanges>>

\* if args.skip_if_local and has_local_checkpoints(args.local_dir): return 0
\* allow_patterns = args.allow_pattern if args.allow_pattern else list(DEFAULT_ALLOW_PATTERNS)
RestoreSkipCheck ==
    /\ pc = "r_skip_check"
    /\ checked' = [reached |-> TRUE, seen |-> fs]
    /\ IF args.skip_if_local /\ has_local_checkpoints(fs)
       THEN /\ Exit(0)
            /\ UNCHANGED allow_patterns
       ELSE /\ allow_patterns' =
                   EffectivePatterns(args.allow_pattern, RESTORE_DEFAULT_ALLOW_PATTERNS)
            /\ pc' = "r_download"
            /\ UNCHANGED exitCode
    /\ UNCHANGED <<prog, args, dirKind, fs, exc, ignore_patterns, apiCreated, calls,
                   passed, iter, attempts, sleeps, lastSleep, raised, handled, dirKind0,
                   fsChanges>>

\* What a returned snapshot_download may have left below --local-dir: nothing
\* new, or the repository's checkpoint tree.
Downloaded(tree) == { tree, tree \cup { e \in Entries : e.path[1] = "base_checkpoints" } }

\* snapshot_download(..., allow_patterns=allow_patterns, ...)
SnapshotDownload(outcome) ==
    /\ pc = "r_download"
    /\ calls' = [calls EXCEPT !.snapshot_download = @ + 1]
    /\ Record(<<allow_patterns, <<>> >>)
    /\ IF outcome = "ok"
       THEN /\ fs' \in Downloaded(fs)
            /\ pc' = "r_complete"
            /\ UNCHANGED <<exc, raised>>
       ELSE /\ exc' = outcome
            /\ raised' = outcome
            /\ pc' = "r_unwind"
            /\ UNCHANGED fs
    /\ UNCHANGED <<prog, args, dirKind, exitCode, allow_patterns, ignore_patterns,
                   apiCreated, iter, attempts, sleeps, lastSleep, checked, handled, dirKind0,
                   fsChanges>>

\* Mutant: only `except HfHubHTTPError` is there.
RestoreHandler_OnlyHubErrors ==
    /\ pc = "r_unwind"
    /\ IF IsInstance(exc, "HfHubHTTPError")
       THEN Exit(0)
       ELSE Exit(UncaughtStatus(exc))
    /\ exc' = "none"
    /\ UNCHANGED <<prog, args, dirKind, fs, allow_patterns, ignore_patterns, apiCreated,
                   calls, passed, iter, attempts, sleeps, lastSleep, raised, checked,
                   handled, dirKind0, fsChanges>>

\* except HfHubHTTPError: return 0 / except Exception: return 0
RestoreHandler ==
    /\ pc = "r_unwind"
    /\ IF IsInstance(exc, "HfHubHTTPError") \/ IsInstance(exc, "Exception")
       THEN Exit(0)
       ELSE Exit(UncaughtStatus(exc))
    /\ exc' = "none"
    /\ UNCHANGED <<prog, args, dirKind, fs, allow_patterns, ignore_patterns, apiCreated,
                   calls, passed, iter, attempts, sleeps, lastSleep, raised, checked,
                   handled, dirKind0, fsChanges>>

\* print("[hf-restore] restore complete"); return 0
RestoreComplete ==
    /\ pc = "r_complete"
    /\ Exit(0)
    /\ UNCHANGED <<prog, args, dirKind, fs, exc, allow_patterns, ignore_patterns,
                   apiCreated, calls, passed, iter, attempts, sleeps, lastSleep, raised,
                   checked, handled, dirKind0, fsChanges>>

----------------------------------------------------------------------------
(* hf_sync_loop.main and sync_once *)

\* Mutant: the sync script creates a missing directory, as the restore script does.
SyncCheckLocalDir_Creates ==
    /\ pc = "s_isdir"
    /\ IF dirKind = "file"
       THEN /\ Exit(2)
            /\ UNCHANGED dirKind
       ELSE /\ dirKind' = "dir"
            /\ pc' = "s_setup"
            /\ UNCHANGED exitCode
    /\ UNCHANGED <<prog, args, fs, exc, allow_patterns, ignore_patterns,
                   apiCreated, calls, passed, iter, attempts, sleeps, lastSleep, raised,
                   checked, handled, dirKind0, fsChanges>>

\* if not os.path.isdir(args.local_dir): return 2
SyncCheckLocalDir ==
    /\ pc = "s_isdir"
    /\ IF dirKind # "dir"
       THEN Exit(2)
       ELSE /\ pc' = "s_setup"
            /\ UNCHANGED exitCode
    /\ UNCHANGED <<prog, args, dirKind, fs, exc, allow_patterns, ignore_patterns,
                   apiCreated, calls, passed, iter, attempts, sleeps, lastSleep, raised,
                   checked, handled, dirKind0, fsChanges>>

\* allow_patterns = ...; ignore_patterns = ...; api = HfApi(token=args.token); try:
SyncSetup ==
    /\ pc = "s_setup"
    /\ allow_patterns' = EffectivePatterns(args.allow_pattern, DEFAULT_ALLOW_PATTERNS)
    /\ ignore_patterns' = EffectivePatterns(args.ignore_pattern, DEFAULT_IGNORE_PATTERNS)
    /\ apiCreated' = TRUE
    /\ pc' = "s_enter"
    /\ UNCHANGED <<prog, args, dirKind, fs, exc, exitCode, calls, passed, iter, attempts,
                   sleeps, lastSleep, raised, checked, handled, dirKind0, fsChanges>>

\* if args.once: sync_once(...)  /  while True: try: sync_once(...)
SyncOnceCall ==
    /\ pc = "s_enter"
    /\ attempts < MaxAttempts
    /\ attempts' = attempts + 1
    /\ iter' = NoIter
    /\ raised' = "none"
    /\ pc' = "s_create_repo"
    /\ UNCHANGED <<prog, args, dirKind, fs, exc, exitCode, allow_patterns,
                   ignore_patterns, apiCreated, calls, passed, sleeps, lastSleep,
                   checked, handled, dirKind0, fsChanges>>

\* Mutant: an error of create_repo is ignored and sync_once goes on.
CreateRepo_ErrorIgnored(outcome) ==
    /\ pc = "s_create_repo"
    /\ calls' = [calls EXCEPT !.create_repo = @ + 1]
    /\ iter' = [iter EXCEPT !.create = IF outcome = "ok" THEN "returned" ELSE "raised"]
    /\ pc' = "s_any_matches"
    /\ UNCHANGED <<prog, args, dirKind, fs, exc, raised, exitCode, allow_patterns,
                   ignore_patterns, apiCreated, passed, attempts, sleeps, lastSleep,
                   checked, handled, dirKind0, fsChanges>>

\* api.create_repo(repo_id=..., repo_type=..., private=..., exist_ok=True)
CreateRepo(outcome) ==
    /\ pc = "s_create_repo"
    /\ calls' = [calls EXCEPT !.create_repo = @ + 1]
    /\ IF outcome = "ok"
       THEN /\ iter' = [iter EXCEPT !.create = "returned"]
            /\ pc' = "s_any_matches"
            /\ UNCHANGED <<exc, raised>>
       ELSE /\ iter' = [iter EXCEPT !.create = "raised"]
            /\ exc' = outcome
            /\ raised' = outcome
            /\ pc' = UnwindTarget
    /\ UNCHANGED <<prog, args, dirKind, fs, exitCode, allow_patterns, ignore_patterns,
                   apiCreated, passed, attempts, sleeps, lastSleep, checked, handled, dirKind0,
                   fsChanges>>

\* if not any_matches(local_dir, allow_patterns): return
AnyMatchesCheck ==
    /\ pc = "s_any_matches"
    /\ LET found == any_matches(fs, allow_patterns)
       IN  /\ iter' = [iter EXCEPT !.matched = IF found THEN "yes" ELSE "no",
                                   !.seen = fs]
           /\ pc' = IF found THEN "s_upload_folder" ELSE "s_returned"
    /\ UNCHANGED <<prog, args, dirKind, fs, exc, exitCode, allow_patterns,
                   ignore_patterns, apiCreated, calls, passed, attempts, sleeps,
                   lastSleep, raised, checked, handled, dirKind0, fsChanges>>

\* api.upload_folder(..., allow_patterns=allow_patterns, ignore_patterns=ignore_patterns, ...)
UploadFolder(outcome) ==
    /\ pc = "s_upload_folder"
    /\ calls' = [calls EXCEPT !.upload_folder = @ + 1]
    /\ Record(<<allow_patterns, ignore_patterns>>)
    /\ iter' = [iter EXCEPT !.upload = TRUE]
    /\ IF outcome = "ok"
       THEN /\ pc' = "s_returned"
            /\ UNCHANGED <<exc, raised>>
       ELSE /\ exc' = outcome
            /\ raised' = outcome
            /\ pc' = UnwindTarget
    /\ UNCHANGED <<prog, args, dirKind, fs, exitCode, allow_patterns, ignore_patterns,
                   apiCreated, attempts, sleeps, lastSleep, checked, handled, dirKind0,
                   fsChanges>>

\* sync_once returned: `return 0` in --once mode, on to time.sleep in loop mode
SyncOnceReturn ==
    /\ pc = "s_returned"
    /\ IF args.once
       THEN Exit(0)
       ELSE /\ pc' = "s_sleep"
            /\ UNCHANGED exitCode
    /\ UNCHANGED <<prog, args, dirKind, fs, exc, allow_patterns, ignore_patterns,
                   apiCreated, calls, passed, iter, attempts, sleeps, lastSleep, raised,
                   checked, handled, dirKind0, fsChanges>>

\* Mutant: only `except HfHubHTTPError` is there.
InnerHandler_OnlyHubErrors ==
    /\ pc = "s_unwind_inner"
    /\ IF IsInstance(exc, "HfHubHTTPError")
       THEN /\ exc' = "none"
            /\ handled' = handled + 1
            /\ pc' = "s_sleep"
       ELSE /\ pc' = "s_unwind_outer"
            /\ UNCHANGED <<exc, handled>>
    /\ UNCHANGED <<prog, args, dirKind, fs, exitCode, allow_patterns, ignore_patterns,
                   apiCreated, calls, passed, iter, attempts, sleeps, lastSleep, raised,
                   checked, dirKind0, fsChanges>>

\* Mutant: the second clause is `except BaseException`.
InnerHandler_CatchesBase ==
    /\ pc = "s_unwind_inner"
    /\ IF IsInstance(exc, "HfHubHTTPError") \/ IsInstance(exc, "BaseException")
       THEN /\ exc' = "none"
            /\ handled' = handled + 1
            /\ pc' = "s_sleep"
       ELSE /\ pc' = "s_unwind_outer"
            /\ UNCHANGED <<exc, handled>>
    /\ UNCHANGED <<prog, args, dirKind, fs, exitCode, allow_patterns, ignore_patterns,
                   apiCreated, calls, passed, iter, attempts, sleeps, lastSleep, raised,
                   checked, dirKind0, fsChanges>>

\* except HfHubHTTPError as err: print(...) / except Exception as err: print(...)
InnerHandler ==
    /\ pc = "s_unwind_inner"
    /\ IF IsInstance(exc, "HfHubHTTPError") \/ IsInstance(exc, "Exception")
       THEN /\ exc' = "none"
            /\ handled' = handled + 1
            /\ pc' = "s_sleep"
       ELSE /\ pc' = "s_unwind_outer"
            /\ UNCHANGED <<exc, handled>>
    /\ UNCHANGED <<prog, args, dirKind, fs, exitCode, allow_patterns, ignore_patterns,
                   apiCreated, calls, passed, iter, attempts, sleeps, lastSleep, raised,
                   checked, dirKind0, fsChanges>>

\* except KeyboardInterrupt: print("[hf-sync] interrupted"); return 0
OuterHandler ==
    /\ pc = "s_unwind_outer"
    /\ IF IsInstance(exc, "KeyboardInterrupt")
       THEN Exit(0)
       ELSE Exit(UncaughtStatus(exc))
    /\ exc' = "none"
    /\ UNCHANGED <<prog, args, dirKind, fs, allow_patterns, ignore_patterns, apiCreated,
                   calls, passed, iter, attempts, sleeps, lastSleep, raised, checked,
                   handled, dirKind0, fsChanges>>

\* time.sleep(max(30, args.interval_seconds)), then the next turn of `while True`
Sleep(outcome) ==
    /\ pc = "s_sleep"
    /\ sleeps' = sleeps + 1
    /\ lastSleep' = SleepSeconds(args.interval_seconds)
    /\ IF outcome = "ok"
       THEN /\ pc' = "s_enter"
            /\ UNCHANGED <<exc, raised>>
       ELSE /\ exc' = outcome
            /\ raised' = outcome
            /\ pc' = "s_unwind_outer"
    /\ UNCHANGED <<prog, args, dirKind, fs, exitCode, allow_patterns, ignore_patterns,
                   apiCreated, calls, passed, iter, attempts, checked, handled, dirKind0,
                   fsChanges>>

----------------------------------------------------------------------------
(* The training job, which writes artifacts below --local-dir while the sync
   script runs ("no matching files yet") *)

TrainerWrites(e) ==
    /\ prog = "sync"
    /\ pc \notin {"s_isdir", "done"}
    /\ fsChanges < MaxFsChanges
    /\ e \notin fs
    /\ IsTree(fs \cup {e})
    /\ fs' = fs \cup {e}
    /\ fsChanges' = fsChanges + 1
    /\ UNCHANGED <<prog, args, dirKind, pc, exc, exitCode, allow_patterns,
                   ignore_patterns, apiCreated, calls, passed, iter, attempts, sleeps,
                   lastSleep, raised, checked, handled, dirKind0>>

----------------------------------------------------------------------------
(* Specifications *)

RestoreStep ==
    \/ RestoreMakedirs
    \/ RestoreSkipCheck
    \/ \E o \in CallOutcomes : SnapshotDownload(o)
    \/ RestoreHandler
    \/ RestoreComplete

\* The steps of the sync script that do not depend on an external call returning.
SyncLocalStep ==
    \/ SyncCheckLocalDir
    \/ SyncSetup
    \/ SyncOnceCall
    \/ AnyMatchesCheck
    \/ SyncOnceReturn
    \/ InnerHandler
    \/ OuterHandler

SyncCallStep ==
    \/ \E o \in CallOutcomes : CreateRepo(o)
    \/ \E o \in CallOutcomes : UploadFolder(o)
    \/ \E o \in SleepOutcomes : Sleep(o)

Next ==
    \/ RestoreStep
    \/ SyncLocalStep
    \/ SyncCallStep
    \/ \E e \in Entries : TrainerWrites(e)

Spec == Init /\ [][Next]_vars

\* Runs of the sync script alone.  Whether the loop goes on depends on neither
\* the ignore patterns nor the length of the sleep, which are left at their
\* defaults here.
SyncInit ==
    /\ Init
    /\ prog = "sync"
    /\ args.ignore_pattern = <<>>
    /\ args.interval_seconds = DEFAULT_INTERVAL

SyncNext ==
    \/ SyncLocalStep
    \/ SyncCallStep
    \/ \E e \in Entries : TrainerWrites(e)

\* The interpreter keeps running the script, and every external call and every
\* sleep comes back (by returning or by raising).
FairSpec ==
    /\ SyncInit
    /\ [][SyncNext]_vars
    /\ WF_vars(SyncLocalStep)
    /\ WF_vars(SyncCallStep)

----------------------------------------------------------------------------
(* Vocabulary of the properties *)

RestoreRun == prog = "restore"
SyncRun    == prog = "sync"
Exited     == pc = "done"

\* A sync run that gets past the directory check, in loop mode / in --once mode.
LoopRun == SyncRun /\ dirKind0 = "dir" /\ ~args.once
OnceRun == SyncRun /\ dirKind0 = "dir" /\ args.once

Interrupted == raised = "KeyboardInterrupt"

\* The pattern list a run must hand over: the user's if any was given, else the defaults.
Expected(user, default) == IF user = <<>> THEN default ELSE user

\* The files (not directories) of a tree that some pattern of the list selects.
MatchingFiles(tree, patterns) ==
    { e \in tree : /\ e.kind = "file"
                   /\ \E k \in 1..Len(patterns) : GlobFrom(patterns[k], 1, e, 1) }

----------------------------------------------------------------------------
(* hf_restore *)

\* C1: a restore run whose local directory exists ends with exit code 0 on
\* every outcome of the download: skipped, returned, HfHubHTTPError raised, or
\* any other Exception raised; no such error leaves the process with a
\* non-zero status or an uncaught exception.
C1_RestoreErrorsNonFatal ==
    (RestoreRun /\ dirKind = "dir")
        => ((Exited /\ (raised = "none" \/ IsInstance(raised, "Exception")))
                => exitCode = 0)

\* C1 witness: snapshot_download raised an Exception that is no hub error and
\* the run has ended with status 0.
C1_Witness ==
    /\ RestoreRun /\ Exited /\ dirKind = "dir"
    /\ calls.snapshot_download = 1
    /\ raised = "ValueError"
    /\ exitCode = 0

\* The tree the restore script's skip check looks at.
TreeAtSkipCheck == IF checked.reached THEN checked.seen ELSE fs

\* C2 (as claimed): snapshot_download is invoked at most once; a finished run
\* has invoked it zero times exactly when --skip-if-local is set and
\* has_local_checkpoints is true, and exactly once in every other case.
C2_DownloadOnceUnlessSkipped ==
    RestoreRun
        => /\ calls.snapshot_download <= 1
           /\ Exited => calls.snapshot_download =
                            IF args.skip_if_local /\ has_local_checkpoints(TreeAtSkipCheck)
                            THEN 0 ELSE 1

\* C2 (amended): as claimed for every run in which os.makedirs returned; a run
\* in which os.makedirs raised (--local-dir names something that is no
\* directory) ends without any download.  Once invoked, the download is
\* followed only by the handlers and the exit.
C2_DownloadOnceUnlessSkippedOrNoDir ==
    RestoreRun
        => /\ calls.snapshot_download <= 1
           /\ (Exited /\ checked.reached) =>
                  calls.snapshot_download =
                      IF args.skip_if_local /\ has_local_checkpoints(checked.seen)
                      THEN 0 ELSE 1
           /\ (Exited /\ ~checked.reached) =>
                  /\ calls.snapshot_download = 0
                  /\ dirKind0 = "file"
                  /\ exitCode # 0
           /\ calls.snapshot_download = 1 => pc \in {"r_complete", "r_unwind", "done"}

\* C2 witness: local checkpoints exist, --skip-if-local is not set, and the
\* finished run has downloaded once.
C2_Witness ==
    /\ RestoreRun /\ Exited
    /\ ~args.skip_if_local
    /\ has_local_checkpoints(checked.seen)
    /\ calls.snapshot_download = 1

----------------------------------------------------------------------------
(* hf_sync_loop *)

\* Positions inside one sync_once call.
InSyncOnce == pc \in {"s_create_repo", "s_any_matches", "s_upload_folder", "s_returned"}

\* C3: in loop mode an error raised by create_repo or upload_folder never ends
\* the loop: the process ends only by a KeyboardInterrupt, every swallowed
\* error is followed by the sleep, and - with the interpreter running and every
\* call coming back - each n-th sync attempt happens unless a KeyboardInterrupt
\* arrives first.
C3_LoopSurvivesErrors ==
    /\ [](LoopRun /\ Exited => Interrupted /\ exitCode = 0)
    /\ [](LoopRun /\ IsInstance(exc, "Exception") => pc = "s_unwind_inner")
    /\ \A n \in 1..MaxAttempts : <>(LoopRun => (attempts >= n \/ Interrupted))

\* C3 witness: a sync attempt is under way after an earlier attempt's error
\* was swallowed.
C3_Witness ==
    /\ LoopRun
    /\ handled >= 1
    /\ attempts = 2
    /\ pc = "s_create_repo"

\* C4: in loop mode exactly one sleep lies between two consecutive sync
\* attempts, also after a failed one; it lasts max(30, interval_seconds): never
\* less than 30 seconds, and the configured value when that is 30 or more.
C4_OneFlooredSleepPerIteration ==
    LoopRun
        => /\ sleeps > 0 =>
                  /\ lastSleep >= 30
                  /\ args.interval_seconds >= 30 => lastSleep = args.interval_seconds
                  /\ args.interval_seconds < 30 => lastSleep = 30
           /\ (InSyncOnce \/ pc \in {"s_unwind_inner", "s_sleep"}) => sleeps = attempts - 1
           /\ pc = "s_enter" => sleeps = attempts
           /\ attempts > 0 => sleeps \in {attempts - 1, attempts}

\* C4 witness: with a negative interval, the second attempt has begun after a
\* failed first one and one sleep of 30 seconds.
C4_Witness ==
    /\ LoopRun
    /\ args.interval_seconds < 0
    /\ handled = 1
    /\ attempts = 2
    /\ sleeps = 1
    /\ lastSleep = 30

\* C5 (as claimed): upload_folder is invoked in an iteration if and only if, at
\* the time of the check, some local file matches the allow patterns; so an
\* invoked upload has at least one matching file to upload.
C5_UploadIffMatchingFile ==
    SyncRun
        => /\ iter.matched # "none" =>
                  (iter.matched = "yes" <=> MatchingFiles(iter.seen, allow_patterns) # {})
           /\ iter.upload => MatchingFiles(iter.seen, allow_patterns) # {}
           /\ iter.upload => iter.matched = "yes"

\* C6: the allow patterns handed to snapshot_download / upload_folder are the
\* defaults when no --allow-pattern was given and otherwise exactly the user's
\* list, in order and unmerged; likewise the ignore patterns of the sync
\* script; and every call of a run hands over the lists of the first call.
C6_PatternsReplaceDefaults ==
    passed.last # <<>>
        => /\ passed.last[1] =
                  Expected(args.allow_pattern,
                           IF RestoreRun THEN RESTORE_DEFAULT_ALLOW_PATTERNS
                           ELSE DEFAULT_ALLOW_PATTERNS)
           /\ SyncRun => passed.last[2] =
                             Expected(args.ignore_pattern, DEFAULT_IGNORE_PATTERNS)
           /\ passed.first = passed.last

\* C6 witness: the second upload of a loop run that was given two different
\* allow patterns and no ignore pattern.
C6_Witness ==
    /\ LoopRun
    /\ calls.upload_folder = 2
    /\ Len(args.allow_pattern) = 2
    /\ args.allow_pattern[1] # args.allow_pattern[2]
    /\ args.ignore_pattern = <<>>
    /\ passed.last = <<args.allow_pattern, DEFAULT_IGNORE_PATTERNS>>

\* C7: when --local-dir is no existing directory the sync script returns 2
\* without constructing HfApi, calling the hosted repository, sleeping or
\* entering the loop, in either mode; it never creates the directory, while
\* the restore script has created it before its skip check and its download.
C7_MissingDirExitsTwo ==
    /\ (SyncRun /\ dirKind0 # "dir")
           => /\ pc \in {"s_isdir", "done"}
              /\ Exited => exitCode = 2
              /\ ~apiCreated
              /\ calls = NoCalls
              /\ attempts = 0
              /\ sleeps = 0
    /\ SyncRun => dirKind = dirKind0
    /\ (RestoreRun /\ (checked.reached \/ calls.snapshot_download > 0 \/ pc = "r_skip_check"))
           => dirKind = "dir"

\* C7 witness: a loop-mode sync run on a missing directory has returned 2.
C7_Witness ==
    /\ SyncRun /\ ~args.once
    /\ dirKind0 = "absent"
    /\ Exited
    /\ exitCode = 2

\* C8: a KeyboardInterrupt raised in create_repo, in upload_folder or in the
\* sleep, in either mode, ends the sync script with exit code 0; the loop's
\* handlers do not swallow it, and no sync attempt, call or sleep follows it.
C8_InterruptExitsZero ==
    /\ [](SyncRun /\ Interrupted =>
              /\ pc \in {"s_unwind_inner", "s_unwind_outer", "done"}
              /\ Exited => exitCode = 0)
    /\ [][SyncRun /\ Interrupted =>
              /\ attempts' = attempts
              /\ sleeps' = sleeps
              /\ calls' = calls
              /\ handled' = handled]_vars

\* C8 witness: a loop run interrupted inside upload_folder has ended with 0.
C8_Witness ==
    /\ LoopRun
    /\ Interrupted
    /\ iter.upload
    /\ sleeps = attempts - 1
    /\ Exited
    /\ exitCode = 0

\* C9: in --once mode sync_once is invoked exactly once, nothing sleeps and
\* nothing is retried; main returns 0 when sync_once returns, and an
\* HfHubHTTPError or other Exception of create_repo or upload_folder leaves
\* main uncaught, so the exit code is not 0.
C9_OnceModeDoesNotTolerateErrors ==
    OnceRun
        => /\ attempts <= 1
           /\ sleeps = 0
           /\ handled = 0
           /\ calls.create_repo <= 1
           /\ calls.upload_folder <= 1
           /\ Exited =>
                  /\ attempts = 1
                  /\ raised = "none" => exitCode = 0
                  /\ IsInstance(raised, "Exception") => exitCode # 0

\* C9 witness: a --once run whose upload_folder raised a hub error has ended
\* with a non-zero status.
C9_Witness ==
    /\ OnceRun
    /\ Exited
    /\ iter.upload
    /\ raised = "HfHubHTTPError"
    /\ exitCode = 1

\* C10: every iteration calls create_repo first: before the match check, also
\* when nothing matches, and again in every later iteration; upload_folder is
\* invoked only after the iteration's create_repo has returned, never in an
\* iteration whose create_repo raised.
C10_CreateRepoFirstEveryIteration ==
    SyncRun
        => /\ calls.create_repo = IF pc = "s_create_repo" THEN attempts - 1 ELSE attempts
           /\ pc \in {"s_any_matches", "s_upload_folder", "s_returned"}
                  => iter.create = "returned"
           /\ (iter.matched # "none" \/ iter.upload) => iter.create = "returned"
           /\ iter.create = "raised" => (~iter.upload /\ iter.matched = "none")
           /\ calls.upload_folder <= calls.create_repo

\* C10 witness: the second iteration of a loop run has called create_repo
\* again and found nothing to upload.
C10_Witness ==
    /\ LoopRun
    /\ attempts = 2
    /\ calls.create_repo = 2
    /\ iter.create = "returned"
    /\ iter.matched = "no"
    /\ ~iter.upload

====
